---- MODULE Spec2Model ----
(***************************************************************************)
(* The Colab notebook notebooks/so-vits-svc-fork-4.0.ipynb as a state      *)
(* machine: the file system the cells act on, the kernel's working         *)
(* directory and namespace, and one start step and one finish step per     *)
(* code cell.  The `svc` sub-commands are not part of the notebook; they   *)
(* are modelled from their documented interface.                           *)
(*                                                                         *)
(* A file name is a sequence of string tokens ("42.out.wav" is             *)
(* <<"42", ".", "out", ".", "wav">>), a path is a sequence of names, and   *)
(* every path kept in the state is absolute.                               *)
(***************************************************************************)
EXTENDS Integers, Sequences, FiniteSets, TLC

VARIABLES
    files,              \* absolute path -> content, the regular files
    dirs,               \* the directories that exist
    cwd,                \* the kernel's working directory
    driveAt,            \* the mount points at which Google Drive is mounted
    NAME,               \* the notebook variable NAME, or Undef
    running,            \* the cells whose commands are executing
    pc,                 \* index of the next cell of a top-to-bottom run
    runs,               \* number of cells started so far
    lastCell,           \* the cell that finished last
    lastInfer,          \* what the infer cell that finished last did
    gen,                \* number of checkpoint generations saved so far
    saved,              \* every <<directory, generation>> svc train saved
    trainDirs,          \* the resolved --model-path of every svc train run
    resampleIn,         \* the raw audio paths svc pre-resample found
    trainCopiesConfig   \* whether svc train puts config.json in the model path

vars == <<files, dirs, cwd, driveAt, NAME, running, pc, runs, lastCell,
          lastInfer, gen, saved, trainDirs, resampleIn, trainCopiesConfig>>

----------------------------------------------------------------------------
(* Bounds of the model. *)

\* random.randint(1, 100) is drawn from 1..MaxName
MaxName == 2
\* the number of clips of the user's dataset on Google Drive
DatasetClips == 2
\* checkpoint generations svc train saves before the model stops it
MaxSaves == 4
\* cells started in a run in which the cells are run in any order
MaxRuns == 4

----------------------------------------------------------------------------
(* Names and paths. *)

Undef == "undef"

\* a path of plain directory names
P(names) == [i \in 1..Len(names) |-> <<names[i]>>]

Root == <<>>

IsPrefix(p, q) == Len(p) <= Len(q) /\ SubSeq(q, 1, Len(p)) = p

Parent(p) == SubSeq(p, 1, Len(p) - 1)

Basename(p) == p[Len(p)]

Ancestors(p) == {SubSeq(p, 1, i) : i \in 0..(Len(p) - 1)}

\* a command-line path argument: absolute, or relative to the working directory
Abs(parts) == [abs |-> TRUE, parts |-> parts]

Rel(parts) == [abs |-> FALSE, parts |-> parts]

NotDot(n) == n # <<".">>

Resolve(arg) ==
    IF arg.abs THEN SelectSeq(arg.parts, NotDot)
    ELSE cwd \o SelectSeq(arg.parts, NotDot)

ConfigJson == <<"config", ".", "json">>

WavName(stem) == <<stem, ".", "wav">>

\* the glob G_*.pth
IsCheckpointName(n) ==
    /\ Len(n) >= 3
    /\ n[1] = "G_"
    /\ n[Len(n) - 1] = "."
    /\ n[Len(n)] = "pth"

IsWavName(n) == Len(n) >= 3 /\ n[Len(n) - 1] = "." /\ n[Len(n)] = "wav"

----------------------------------------------------------------------------
(* The file system. *)

IsFile(p) == p \in DOMAIN files

IsDir(p) == p \in dirs

\* the files after writing content c at each path of ps (parents are created)
FilesWith(ps, c) == [q \in DOMAIN files \cup ps |-> IF q \in ps THEN c ELSE files[q]]

DirsWith(ps) == dirs \cup UNION {Ancestors(p) : p \in ps}

FilesUnder(d) == {p \in DOMAIN files : IsPrefix(d, p) /\ p # d}

----------------------------------------------------------------------------
(* The cells of the notebook, top to bottom. *)

Cells ==
    << "CheckGPU", "Install", "Mount", "Cd", "Mkdir", "Rm", "CopyDataset",
       "DownloadDataset", "PreResample", "PreConfig", "CopyConfig", "PreHubert",
       "Train", "GetVoice", "InferTrained", "WgetRiri", "InferRiri",
       "WgetPinkie", "InferPinkie" >>

CellSet == {Cells[i] : i \in 1..Len(Cells)}

IndexOf(c) == CHOOSE i \in 1..Len(Cells) : Cells[i] = c

\* the Train cell with its command put in the background
BackgroundTrain(c) == c = "Train"

\* no cell puts its command in the background: every `!` line runs to its end
Background(c) == FALSE

NoInfer ==
    [cell |-> "none", input |-> <<>>, played |-> <<>>, ready |-> FALSE,
     ok |-> FALSE, model |-> "none", config |-> "none", after |-> "none"]

\* a fresh runtime: Colab starts the kernel in /content; a kernel started
\* in / is the case `%cd ./content` is written for.  Whether svc train also
\* puts config.json in its model path is not documented: either may hold.
Init ==
    /\ files = <<>>
    /\ dirs = {Root, P(<<"content">>)}
    /\ cwd \in {Root, P(<<"content">>)}
    /\ driveAt = {}
    /\ NAME = Undef
    /\ running = {}
    /\ pc = 1
    /\ runs = 0
    /\ lastCell = "none"
    /\ lastInfer = NoInfer
    /\ gen = 0
    /\ saved = {}
    /\ trainDirs = {}
    /\ resampleIn = {}
    /\ trainCopiesConfig \in BOOLEAN

\* the kernel takes up a cell only when nothing is executing in the foreground
Start(c) ==
    /\ \A r \in running : Background(r)
    /\ c \notin running
    /\ running' = running \cup {c}
    /\ runs' = runs + 1
    /\ UNCHANGED <<files, dirs, cwd, driveAt, NAME, lastCell, lastInfer, gen,
                   saved, trainDirs, resampleIn, trainCopiesConfig>>

\* what every finishing cell does to the kernel's bookkeeping
Finish(c) ==
    /\ c \in running
    /\ running' = running \ {c}
    /\ lastCell' = c
    /\ UNCHANGED <<pc, runs, trainCopiesConfig>>

----------------------------------------------------------------------------
(* Arguments the cells pass to their commands. *)

MountPointAtRoot == P(<<"drive">>)

MountPoint == P(<<"content", "drive">>)

CdTarget == Rel(<< <<".">>, <<"content">> >>)

MkdirTarget == Rel(P(<<"dataset_raw", "44k">>))

DATASET_NAME == "kiritan"

CopyDatasetSrc ==
    Abs(P(<<"content", "drive", "MyDrive", "so-vits-svc-fork", "dataset", DATASET_NAME>>))

CopyDatasetDestNo44k == Rel(P(<<"dataset_raw">>))

CopyDatasetDest == Rel(P(<<"dataset_raw", "44k">>))

CopyConfigSrcTypo == Rel(P(<<"config", "44k">>) \o <<ConfigJson>>)

CopyConfigSrc == Rel(P(<<"configs", "44k">>) \o <<ConfigJson>>)

CopyConfigDest == Rel(P(<<"drive", "MyDrive", "so-vits-svc-fork">>))

TrainModelPath == Rel(P(<<"drive", "MyDrive", "so-vits-svc-fork", "logs", "44k">>))

InferTrainedModel == Rel(P(<<"drive", "MyDrive", "so-vits-svc-fork", "logs", "44k">>))

InferTrainedConfig ==
    Rel(P(<<"drive", "MyDrive", "so-vits-svc-fork", "logs", "44k">>) \o <<ConfigJson>>)

RiriModel == <<"G_", "riri_220", ".", "pth">>

PinkieModel == <<"G_", "166400", ".", "pth">>

\* the {field}s of each infer cell's `!svc infer` line
InferFields(c) == IF c = "InferPinkie" THEN {"NAME", "neutral"} ELSE {"NAME"}

InferModel(c) ==
    CASE c = "InferTrained" -> InferTrainedModel
      [] c = "InferRiri" -> Rel(<<RiriModel>>)
      [] c = "InferPinkie" -> Rel(<<PinkieModel>>)

\* every infer cell reading the configuration of the trained model
InferConfigTrained(c) ==
    Rel(P(<<"drive", "MyDrive", "so-vits-svc-fork", "logs", "44k">>) \o <<ConfigJson>>)

InferConfig(c) ==
    IF c = "InferTrained" THEN InferTrainedConfig ELSE Rel(<<ConfigJson>>)

\* the model repository each download cell fetches from
WgetOrigin(c) == IF c = "WgetRiri" THEN "riri" ELSE "pinkie"

WgetModel(c) == IF c = "WgetRiri" THEN RiriModel ELSE PinkieModel

\* the download cell above each infer cell of the 'Pretrained models' section
DownloadCellOf(c) == IF c = "InferRiri" THEN "WgetRiri" ELSE "WgetPinkie"

----------------------------------------------------------------------------
(* What Google Drive holds before the notebook runs: the user's dataset. *)

DriveDataset ==
    {MountPoint \o P(<<"MyDrive", "so-vits-svc-fork", "dataset", DATASET_NAME>>)
        \o <<WavName(ToString(i))>> : i \in 1..DatasetClips}

----------------------------------------------------------------------------
(* IPython's expansion of {name} in a `!` line, and Python's f-string. *)

Defined(v) == v = "NAME" /\ NAME # Undef

\* a `!` line is expanded as a whole: when one of its fields cannot be
\* evaluated, the line is passed to the shell untransformed
VarExpand(stem, fields) ==
    IF \A v \in fields : Defined(v) THEN NAME ELSE stem

\* f"{NAME}.out.wav"; evaluating it raises NameError when NAME is not defined
PlayedName == IF NAME = Undef THEN <<>> ELSE <<NAME, ".", "out", ".", "wav">>

----------------------------------------------------------------------------
(* The svc sub-commands, from their documented interface. *)

RawDatasetDir == Rel(P(<<"dataset_raw", "44k">>))

TrainConfigPath == Rel(P(<<"configs", "44k">>) \o <<ConfigJson>>)

\* the generations of models kept in the model path
KeepCkpts == 3

\* dataset_raw/44k/<speaker>/*.wav
RawClips ==
    {p \in FilesUnder(Resolve(RawDatasetDir)) :
        /\ Len(p) = Len(Resolve(RawDatasetDir)) + 2
        /\ IsWavName(Basename(p))}

\* where svc pre-resample writes the resampled version of the raw clip p
ResampledPath(p) == p

\* where svc pre-hubert writes the features of the clip p
FeaturePath(p) == Parent(p) \o <<Basename(p) \o <<".", "soft", ".", "pt">>>>

CheckpointName(g) == <<"G_", ToString(g), ".", "pth">>

\* the model path option ignored: checkpoints go to logs/44k of the
\* working directory
CheckpointPathDefault(dir, g) == cwd \o P(<<"logs", "44k">>) \o <<CheckpointName(g)>>

\* where svc train writes generation g, given the resolved model path
CheckpointPath(dir, g) == dir \o <<CheckpointName(g)>>

GenNum(content) == CHOOSE k \in 0..(MaxSaves + 1) : ToString(k) = content[2]

CheckpointsIn(dir) ==
    {p \in DOMAIN files : Parent(p) = dir /\ IsCheckpointName(Basename(p))}

\* one generation too many is kept
ExpiredOffByOne(dir) ==
    {p \in CheckpointsIn(dir) :
        Cardinality({q \in CheckpointsIn(dir) :
                        GenNum(files[q]) > GenNum(files[p])}) >= KeepCkpts}

\* the checkpoints svc train removes from dir when it saves one more
\* generation: all but the KeepCkpts latest, the new one among them
Expired(dir) ==
    {p \in CheckpointsIn(dir) :
        Cardinality({q \in CheckpointsIn(dir) :
                        GenNum(files[q]) > GenNum(files[p])}) + 1 >= KeepCkpts}

\* <input>.wav -> <input>.out.wav
OutputName(input) == SubSeq(input, 1, Len(input) - 2) \o <<".", "out", ".", "wav">>

\* the checkpoint svc infer loads for -m: the file itself, or the latest
\* G_*.pth of a directory
LoadedModel(m) ==
    IF IsFile(m) THEN {m}
    ELSE {p \in CheckpointsIn(m) :
            \A q \in CheckpointsIn(m) : GenNum(files[q]) <= GenNum(files[p])}

----------------------------------------------------------------------------
(* The cells.  Each Finish... action is the whole effect of its cell. *)

NoFileChange == UNCHANGED <<files, dirs, cwd, driveAt, NAME, gen, saved,
                            trainDirs, resampleIn>>

\* !nvidia-smi
FinishCheckGPU ==
    /\ Finish("CheckGPU")
    /\ lastInfer' = NoInfer
    /\ NoFileChange

\* pip install
FinishInstall ==
    /\ Finish("Install")
    /\ lastInfer' = NoInfer
    /\ NoFileChange

\* drive.mount('/content/drive')
FinishMount ==
    /\ Finish("Mount")
    /\ lastInfer' = NoInfer
    /\ driveAt' = driveAt \cup {MountPoint}
    /\ files' = FilesWith(DriveDataset \ DOMAIN files, <<"audio", "raw">>)
    /\ dirs' = DirsWith(DriveDataset) \cup {MountPoint}
    /\ UNCHANGED <<cwd, NAME, gen, saved, trainDirs, resampleIn>>

\* %cd ./content
FinishCd ==
    /\ Finish("Cd")
    /\ lastInfer' = NoInfer
    /\ cwd' = IF IsDir(Resolve(CdTarget)) THEN Resolve(CdTarget) ELSE cwd
    /\ UNCHANGED <<files, dirs, driveAt, NAME, gen, saved, trainDirs, resampleIn>>

\* !mkdir -p "dataset_raw/44k"
FinishMkdir ==
    /\ Finish("Mkdir")
    /\ lastInfer' = NoInfer
    /\ dirs' = DirsWith({Resolve(MkdirTarget)}) \cup {Resolve(MkdirTarget)}
    /\ UNCHANGED <<files, cwd, driveAt, NAME, gen, saved, trainDirs, resampleIn>>

\* the cell whose two rm lines are commented out
FinishRm ==
    /\ Finish("Rm")
    /\ lastInfer' = NoInfer
    /\ NoFileChange

\* where cp -R src/ -t dest puts the file p of the tree src
CopiedTo(src, dest, p) == dest \o <<Basename(src)>> \o SubSeq(p, Len(src) + 1, Len(p))

\* !cp -R /content/drive/MyDrive/so-vits-svc-fork/dataset/{DATASET_NAME}/ -t "dataset_raw/44k/"
FinishCopyDataset ==
    /\ Finish("CopyDataset")
    /\ lastInfer' = NoInfer
    /\ LET src == Resolve(CopyDatasetSrc)
           dest == Resolve(CopyDatasetDest)
           new == {CopiedTo(src, dest, p) : p \in FilesUnder(src)}
       IN  IF IsDir(src) /\ IsDir(dest)
           THEN /\ files' = [q \in DOMAIN files \cup new |->
                               IF q \in new
                               THEN files[CHOOSE p \in FilesUnder(src) :
                                              CopiedTo(src, dest, p) = q]
                               ELSE files[q]]
                /\ dirs' = DirsWith(new)
           ELSE UNCHANGED <<files, dirs>>
    /\ UNCHANGED <<cwd, driveAt, NAME, gen, saved, trainDirs, resampleIn>>

\* the cell whose wget, unzip and mv lines are commented out
FinishDownloadDataset ==
    /\ Finish("DownloadDataset")
    /\ lastInfer' = NoInfer
    /\ NoFileChange

\* !svc pre-resample
FinishPreResample ==
    /\ Finish("PreResample")
    /\ lastInfer' = NoInfer
    /\ resampleIn' = RawClips
    /\ files' = FilesWith({ResampledPath(p) : p \in RawClips}, <<"audio", "resampled">>)
    /\ dirs' = DirsWith({ResampledPath(p) : p \in RawClips})
    /\ UNCHANGED <<cwd, driveAt, NAME, gen, saved, trainDirs>>

\* !svc pre-config
FinishPreConfig ==
    /\ Finish("PreConfig")
    /\ lastInfer' = NoInfer
    /\ files' = FilesWith({Resolve(TrainConfigPath)}, <<"config", "train">>)
    /\ dirs' = DirsWith({Resolve(TrainConfigPath)})
    /\ UNCHANGED <<cwd, driveAt, NAME, gen, saved, trainDirs, resampleIn>>

\* where cp src dest puts the file: into dest when it is a directory, at
\* dest when only its parent exists, nowhere otherwise
CpTarget(src, dest) ==
    IF ~IsFile(src) THEN {}
    ELSE IF IsDir(dest) THEN {dest \o <<Basename(src)>>}
    ELSE IF IsDir(Parent(dest)) THEN {dest}
    ELSE {}

\* !cp configs/44k/config.json drive/MyDrive/so-vits-svc-fork
FinishCopyConfig ==
    /\ Finish("CopyConfig")
    /\ lastInfer' = NoInfer
    /\ LET src == Resolve(CopyConfigSrc)
           to == CpTarget(src, Resolve(CopyConfigDest))
       IN  files' = IF to = {} THEN files ELSE FilesWith(to, files[src])
    /\ UNCHANGED <<dirs, cwd, driveAt, NAME, gen, saved, trainDirs, resampleIn>>

\* !svc pre-hubert
FinishPreHubert ==
    /\ Finish("PreHubert")
    /\ lastInfer' = NoInfer
    /\ files' = FilesWith({FeaturePath(p) : p \in RawClips}, <<"feature", "hubert">>)
    /\ UNCHANGED <<dirs, cwd, driveAt, NAME, gen, saved, trainDirs, resampleIn>>

\* one checkpoint save of the running svc train: the new generation is
\* written under the model path and the generations beyond KeepCkpts go
TrainSave ==
    /\ "Train" \in running
    /\ gen < MaxSaves
    /\ IsFile(Resolve(TrainConfigPath))
    /\ LET dir == Resolve(TrainModelPath)
           new == CheckpointPath(dir, gen + 1)
           conf == IF trainCopiesConfig THEN {dir \o <<ConfigJson>>} ELSE {}
       IN  /\ files' = [q \in ((DOMAIN files \ Expired(dir)) \cup {new} \cup conf) |->
                           IF q = new THEN <<"model", ToString(gen + 1)>>
                           ELSE IF q \in conf THEN files[Resolve(TrainConfigPath)]
                           ELSE files[q]]
           /\ dirs' = DirsWith({new}) \cup {dir}
           /\ saved' = saved \cup {<<dir, gen + 1>>}
           /\ trainDirs' = trainDirs \cup {dir}
    /\ gen' = gen + 1
    /\ UNCHANGED <<cwd, driveAt, NAME, running, pc, runs, lastCell, lastInfer,
                   resampleIn, trainCopiesConfig>>

\* !svc train --model-path drive/MyDrive/so-vits-svc-fork/logs/44k
FinishTrain ==
    /\ Finish("Train")
    /\ lastInfer' = NoInfer
    /\ trainDirs' = trainDirs \cup {Resolve(TrainModelPath)}
    /\ UNCHANGED <<files, dirs, cwd, driveAt, NAME, gen, saved, resampleIn>>

\* NAME = str(random.randint(1, 100)); !wget -N ".../{NAME}.wav"
FinishGetVoice ==
    /\ Finish("GetVoice")
    /\ lastInfer' = NoInfer
    /\ \E n \in 1..MaxName :
        /\ NAME' = ToString(n)
        /\ files' = FilesWith({cwd \o <<WavName(ToString(n))>>}, <<"audio", "source">>)
    /\ UNCHANGED <<dirs, cwd, driveAt, gen, saved, trainDirs, resampleIn>>

\* the two wget -N lines of a download cell: the checkpoint and config.json
\* of one model repository, both saved in the working directory (wget -N
\* fetches a file that is absent or differs from the remote one)
Wget(c) ==
    /\ Finish(c)
    /\ lastInfer' = NoInfer
    /\ files' = [q \in DOMAIN files \cup {cwd \o <<WgetModel(c)>>, cwd \o <<ConfigJson>>} |->
                    IF q = cwd \o <<WgetModel(c)>> THEN <<"model", WgetOrigin(c)>>
                    ELSE IF q = cwd \o <<ConfigJson>> THEN <<"config", WgetOrigin(c)>>
                    ELSE files[q]]
    /\ UNCHANGED <<dirs, cwd, driveAt, NAME, gen, saved, trainDirs, resampleIn>>

FinishWgetRiri == Wget("WgetRiri")

FinishWgetPinkie == Wget("WgetPinkie")

\* !svc infer {NAME}.wav -m ... -c ...; display(Audio(f"{NAME}.out.wav"))
Infer(c) ==
    /\ Finish(c)
    /\ LET input == cwd \o <<WavName(VarExpand("{NAME}", InferFields(c)))>>
           cfg == Resolve(InferConfig(c))
           loaded == LoadedModel(Resolve(InferModel(c)))
           ok == IsFile(input) /\ IsFile(cfg) /\ loaded # {}
           tag == IF loaded # {} THEN files[CHOOSE p \in loaded : TRUE][2] ELSE "none"
       IN  /\ files' = IF ok
                       THEN FilesWith({Parent(input) \o <<OutputName(Basename(input))>>},
                                      <<"converted", tag>>)
                       ELSE files
           /\ lastInfer' =
                [cell |-> c, input |-> Basename(input), played |-> PlayedName,
                 ready |-> /\ NAME # Undef
                           /\ IsFile(cwd \o <<WavName(NAME)>>)
                           /\ IsFile(cfg)
                           /\ loaded # {},
                 ok |-> ok, model |-> tag,
                 config |-> IF IsFile(cfg) THEN files[cfg][2] ELSE "none",
                 after |-> lastCell]
    /\ UNCHANGED <<dirs, cwd, driveAt, NAME, gen, saved, trainDirs, resampleIn>>

FinishInferTrained == Infer("InferTrained")

FinishInferRiri == Infer("InferRiri")

FinishInferPinkie == Infer("InferPinkie")

----------------------------------------------------------------------------
(* The two ways the notebook is run. *)

Finishes ==
    \/ FinishCheckGPU
    \/ FinishInstall
    \/ FinishMount
    \/ FinishCd
    \/ FinishMkdir
    \/ FinishRm
    \/ FinishCopyDataset
    \/ FinishDownloadDataset
    \/ FinishPreResample
    \/ FinishPreConfig
    \/ FinishCopyConfig
    \/ FinishPreHubert
    \/ TrainSave
    \/ FinishTrain
    \/ FinishGetVoice
    \/ FinishInferTrained
    \/ FinishWgetRiri
    \/ FinishInferRiri
    \/ FinishWgetPinkie
    \/ FinishInferPinkie

\* the cells are run one after the other, top to bottom
StartTop(c) ==
    /\ pc <= Len(Cells)
    /\ Cells[pc] = c
    /\ Start(c)
    /\ pc' = pc + 1

\* the user runs whichever cell they pick
StartAny(c) ==
    /\ runs < MaxRuns
    /\ Start(c)
    /\ UNCHANGED pc

NextTop == (\E c \in CellSet : StartTop(c)) \/ Finishes

Next == (\E c \in CellSet : StartAny(c)) \/ Finishes

SpecTop == Init /\ [][NextTop]_vars

Spec == Init /\ [][Next]_vars

----------------------------------------------------------------------------
(* Properties. *)

Started(c) == IndexOf(c) < pc

Finished(c) == Started(c) /\ c \notin running

\* C1: after any number of checkpoint saves, each model path holds at most
\* 3 generations, and they are the 3 saved last into it.
C1_Retention ==
    \A d \in trainDirs :
        LET gens == {g \in 1..gen : <<d, g>> \in saved}
            kept == {GenNum(files[p]) : p \in CheckpointsIn(d)}
        IN  /\ Cardinality(CheckpointsIn(d)) <= 3
            /\ kept = {g \in gens : Cardinality({h \in gens : h > g}) < 3}

C1_Witness ==
    \E d \in trainDirs :
        /\ Cardinality({g \in 1..gen : <<d, g>> \in saved}) > 3
        /\ Cardinality(CheckpointsIn(d)) = 3

\* C2: in every infer cell the file svc infer produces for its input,
\* <input>.out.wav, is the file the cell then plays, and it exists when the
\* inference succeeded.
C2_OutputIsPlayed ==
    (lastInfer.cell # "none" /\ NAME # Undef) =>
        /\ OutputName(lastInfer.input) = lastInfer.played
        /\ lastInfer.ok => IsFile(cwd \o <<lastInfer.played>>)

StageOrder ==
    <<"Mount", "CopyDataset", "PreResample", "PreConfig", "PreHubert", "Train",
      "InferTrained">>

\* C3: in a top-to-bottom run at most one cell executes at a time, it is the
\* cell started last, and a stage has started only when every stage before
\* it in mount, copy, pre-resample, pre-config, pre-hubert, train, infer has
\* finished.
C3_Sequential ==
    /\ Cardinality(running) <= 1
    /\ \A c \in running : IndexOf(c) = pc - 1
    /\ \A i, j \in 1..Len(StageOrder) :
        (i < j /\ Started(StageOrder[j])) => Finished(StageOrder[i])

C3_Witness == pc > Len(Cells) /\ running = {} /\ lastCell = "InferPinkie" /\ gen > 0

\* the files svc train wrote as checkpoints
TrainedCheckpoints ==
    {p \in DOMAIN files : \E g \in 1..gen : files[p] = <<"model", ToString(g)>>}

\* C4: every checkpoint svc train persisted lies under the directory it was
\* given as --model-path and is named G_*.pth.
C4_CheckpointsUnderModelPath ==
    \A p \in TrainedCheckpoints :
        /\ \E d \in trainDirs : IsPrefix(d, p) /\ p # d
        /\ IsCheckpointName(Basename(p))

C4_Witness == trainDirs # {} /\ Cardinality(TrainedCheckpoints) >= 2

Resampled == {p \in DOMAIN files : files[p] = <<"audio", "resampled">>}

\* C5: once svc pre-resample has run, every clip of the dataset is
\* resampled at dataset_raw/44k/<speaker>/, the place that held it raw, and
\* resampled audio is nowhere else.
C5_ResampleInPlace ==
    Finished("PreResample") =>
        /\ Resampled = resampleIn
        /\ \A i \in 1..DatasetClips :
             cwd \o P(<<"dataset_raw", "44k", DATASET_NAME>>) \o <<WavName(ToString(i))>>
                \in Resampled
        /\ \A p \in Resampled :
             /\ IsPrefix(cwd \o P(<<"dataset_raw", "44k">>), p)
             /\ Len(p) = Len(cwd) + 4

C5_Witness == Finished("PreResample") /\ Cardinality(Resampled) = DatasetClips

\* C6: once svc pre-config has run, configs/44k/config.json exists in the
\* working directory, it is the file the 'Copy configs file' cell reads, and
\* once that cell has run the copy is in drive/MyDrive/so-vits-svc-fork.
C6_ConfigForCopy ==
    Finished("PreConfig") =>
        /\ IsFile(cwd \o P(<<"configs", "44k">>) \o <<ConfigJson>>)
        /\ IsFile(Resolve(CopyConfigSrc))
        /\ Finished("CopyConfig") =>
             IsFile(cwd \o P(<<"drive", "MyDrive", "so-vits-svc-fork">>) \o <<ConfigJson>>)

C6_Witness ==
    /\ Finished("CopyConfig")
    /\ IsFile(cwd \o P(<<"drive", "MyDrive", "so-vits-svc-fork">>) \o <<ConfigJson>>)

\* C7: in a top-to-bottom run, once the Train cell has started, Drive is
\* mounted at /content/drive and the model path svc train is given resolves
\* to a directory inside it.
C7_ModelPathOnDrive ==
    Started("Train") =>
        /\ P(<<"content", "drive">>) \in driveAt
        /\ IsPrefix(P(<<"content", "drive">>), Resolve(TrainModelPath))
        /\ \A d \in trainDirs : \E m \in driveAt : IsPrefix(m, d) /\ m # d

C7_Witness ==
    /\ Finished("Train")
    /\ \E p \in TrainedCheckpoints : IsPrefix(P(<<"content", "drive">>), p)

C9_AnyOrder ==
    (/\ lastInfer.cell \in {"InferRiri", "InferPinkie"}
     /\ lastInfer.model # "none"
     /\ lastInfer.config # "none") =>
        lastInfer.config = lastInfer.model

Outputs == {p \in DOMAIN files : files[p][1] = "converted"}

\* C10: after an infer cell whose input, model and configuration are
\* present, exactly one output file exists, it is <NAME>.out.wav, and it is
\* the result of that inference.
C10_LastInferenceOutput ==
    (lastInfer.cell # "none" /\ lastInfer.ready) =>
        /\ Outputs = {cwd \o <<lastInfer.played>>}
        /\ files[cwd \o <<lastInfer.played>>] = <<"converted", lastInfer.model>>

====
